---- MODULE Spec2Model ----
(***************************************************************************)
(* OTP-gated contact form of KmTempe/solemn-declaration (src/app.py,       *)
(* src/redis_helper.py, src/mongo_helper.py).                              *)
(*                                                                         *)
(* The handlers are written as operators over a record `s` of the program  *)
(* state (the Redis keys, the in-memory fallback dicts, the Flask session, *)
(* the persisted submissions) that return the state after the call and the *)
(* response; an action applies one handler to the current state.  The wall *)
(* clock is counted in ticks of 1/TicksPerSecond second.                   *)
(***************************************************************************)
EXTENDS Integers, Sequences, FiniteSets, Bags, TLC

\* ------------------------------------------------------------- bounds
TicksPerSecond == 2
MaxTicks == 2
MaxInFlight == 2
MaxSubmissions == 2

\* -------------------------------------------------- program constants
OTP_TTL_SECONDS == 300
MAX_ATTEMPTS == 3
RESEND_COOLDOWN_SECONDS == 30
COOLDOWN_KEEP_SECONDS == 3600
FORM_LIMIT == 10
FORM_WINDOW_SECONDS == 3600
OTP_LIMIT == 15
OTP_WINDOW_SECONDS == 300
\* Redis reports a key without expiry with a time-to-live of -1.
NoTTL == -1

Ticks(seconds) == seconds * TicksPerSecond

\* ------------------------------------------------------- input domains
Emails == {"a@x.com", "b@x.com"}
Codes == {"111111", "222222"}
Ips == {"10.0.0.1"}
\* An empty form field, and an absent session['form_data'].
Blank == ""
NoFormData == "none"

VARIABLES
    redis_available,      \* RedisHelper.redis_available, set once by _connect
    mongo_available,      \* MongoHelper.mongo_available, set once by _connect
    now,                  \* the wall clock, in ticks
    ticks,                \* how often the clock has advanced
    redis_otp,            \* Redis hashes otp:<email>
    redis_resend,         \* Redis keys otp_resend:<email>
    redis_rate,           \* Redis keys rate_limit:<scope>:<ip>
    otp_storage,          \* app.otp_storage
    otp_resend_cooldown,  \* app.otp_resend_cooldown
    session,              \* the email of session['form_data'], or NoFormData
    mongo_ids,            \* submission ids held by db.submissions
    tracking_ids,         \* submission ids held by submissions_tracking.json
    hist,                 \* history: the latest issuance per email
    wins,                 \* history: the posts of each rate-limit window
    inflight,             \* requests between two of their steps
    redis_up,             \* whether a call to the Redis server succeeds now
    saves,                \* history: how often the pending payload was saved
    twin,                 \* the same requests served by the in-memory backend
    detached              \* deleted otp_storage records a request still holds

vars == <<redis_available, mongo_available, now, ticks, redis_otp, redis_resend,
          redis_rate, otp_storage, otp_resend_cooldown, session, mongo_ids,
          tracking_ids, hist, wins, inflight, redis_up, saves, twin, detached>>

\* ------------------------------------------------- key/value primitives
\* A delete that removes nothing.
RemoveNothing(m, k) == m
Remove(m, k) == [x \in DOMAIN m \ {k} |-> m[x]]
\* A write that lands on every key of the map.
PutEvery(m, k, v) == [x \in DOMAIN m \cup {k} |-> v]
Put(m, k, v) == [x \in DOMAIN m \cup {k} |-> IF x = k THEN v ELSE m[x]]
Max(S) == IF S = {} THEN 0 ELSE CHOOSE x \in S : \A y \in S : y <= x

\* Redis drops a key once its time-to-live has run out.
RedisExpire(m, t) ==
    [k \in {x \in DOMAIN m : m[x].exp = NoTTL \/ t < m[x].exp} |-> m[k]]

\* ------------------------------------------------------------ RedisHelper
\* How a method of RedisHelper ends: without a call when is_available() is
\* false, in its except clause when the client call raises, with the server's
\* answer otherwise. In the first two cases it returns its default.
\* A helper whose methods have no except clause.
CallOutcomeUncaught(s) ==
    IF ~s.redis_available THEN "unavailable"
    ELSE IF ~s.redis_up THEN "raised"
    ELSE "served"

CallOutcome(s) ==
    IF ~s.redis_available THEN "unavailable"
    ELSE IF ~s.redis_up THEN "caught"
    ELSE "served"

Served(s) == CallOutcome(s) = "served"
Raised(s) == CallOutcome(s) = "raised"

\* None
None == <<>>
Some(v) == <<v>>

\* get: the value under the key, or None.
redis_get(s, m, key) ==
    IF Served(s) /\ key \in DOMAIN m THEN Some(m[key]) ELSE None

\* set(key, value, ex): the return value and the store after the call.
redis_set(s, m, key, value) ==
    IF Served(s) THEN [ret |-> TRUE, m |-> Put(m, key, value)]
    ELSE [ret |-> FALSE, m |-> m]

\* hget(name, field, default): Some(value), or the default.
redis_hget(s, m, name, field, default) ==
    IF Served(s) /\ name \in DOMAIN m /\ field \in DOMAIN m[name]
    THEN Some(m[name][field]) ELSE default

\* int(str(attempts_str)) if attempts_str else 0
AttemptsOf(attempts_str) == IF attempts_str = None THEN 0 ELSE attempts_str[1]

\* hset(name, mapping): the fields of the mapping are written into the hash,
\* which keeps the time-to-live it has.
\* (First an hset that writes only the fields the hash does not have yet.)
redis_hsetnx(s, m, name, mapping) ==
    IF Served(s)
    THEN [ret |-> TRUE,
          m |-> Put(m, name,
                    IF name \in DOMAIN m THEN m[name] @@ mapping
                    ELSE mapping @@ [exp |-> NoTTL])]
    ELSE [ret |-> FALSE, m |-> m]

redis_hset(s, m, name, mapping) ==
    IF Served(s)
    THEN [ret |-> TRUE,
          m |-> Put(m, name,
                    IF name \in DOMAIN m THEN mapping @@ m[name]
                    ELSE mapping @@ [exp |-> NoTTL])]
    ELSE [ret |-> FALSE, m |-> m]

\* expire(name, time), with the time the key then runs out at.
redis_expire(s, m, name, exp) ==
    IF Served(s) /\ name \in DOMAIN m
    THEN [ret |-> TRUE, m |-> [m EXCEPT ![name].exp = exp]]
    ELSE [ret |-> FALSE, m |-> m]

\* delete(name)
redis_delete(s, m, name) ==
    IF Served(s) THEN [ret |-> name \in DOMAIN m, m |-> Remove(m, name)]
    ELSE [ret |-> FALSE, m |-> m]

\* exists(name). (First a variant that answers from what it last saw when
\* the call fails.)
redis_exists_stale(s, m, name) == name \in DOMAIN m
redis_exists(s, m, name) == Served(s) /\ name \in DOMAIN m

\* incr(name): an existing key keeps its expiry, a missing key is created as
\* 1 without one. Returns the new value, or None.
redis_incr(s, m, name) ==
    IF ~Served(s) THEN [ret |-> None, m |-> m]
    ELSE IF name \in DOMAIN m
    THEN [ret |-> Some(m[name].n + 1), m |-> [m EXCEPT ![name].n = @ + 1]]
    ELSE [ret |-> Some(1), m |-> Put(m, name, [n |-> 1, exp |-> NoTTL])]

\* hincrby(name, field, 1): a missing hash is created with that field alone.
redis_hincrby(s, m, name, field) ==
    IF ~Served(s) THEN [ret |-> None, m |-> m]
    ELSE IF name \in DOMAIN m /\ field \in DOMAIN m[name]
    THEN [ret |-> Some(m[name][field] + 1),
          m |-> [m EXCEPT ![name][field] = @ + 1]]
    ELSE IF name \in DOMAIN m
    THEN [ret |-> Some(1), m |-> [m EXCEPT ![name] = (field :> 1) @@ @]]
    ELSE [ret |-> Some(1), m |-> Put(m, name, (field :> 1) @@ [exp |-> NoTTL])]

\* The program state the handlers read and write.
St ==
    [redis_otp |-> redis_otp, redis_resend |-> redis_resend,
     redis_rate |-> redis_rate, otp_storage |-> otp_storage,
     otp_resend_cooldown |-> otp_resend_cooldown, session |-> session,
     mongo_ids |-> mongo_ids, tracking_ids |-> tracking_ids, hist |-> hist,
     saves |-> saves, detached |-> detached,
     redis_available |-> redis_available, redis_up |-> redis_up]

\* A handler writes the stores and the session; redis_available is written by
\* RedisHelper._connect alone, and the server's reachability by nobody here.
Commit(s) ==
    /\ saves' = s.saves
    /\ detached' = s.detached
    /\ redis_otp' = s.redis_otp
    /\ redis_resend' = s.redis_resend
    /\ redis_rate' = s.redis_rate
    /\ otp_storage' = s.otp_storage
    /\ otp_resend_cooldown' = s.otp_resend_cooldown
    /\ session' = s.session
    /\ mongo_ids' = s.mongo_ids
    /\ tracking_ids' = s.tracking_ids
    /\ hist' = s.hist

\* ------------------------------------------------------------ history
\* hist[e] remembers the latest store_otp(e, code): when it was made, the
\* code of the live record it replaced (prev, empty or one code), whether it
\* came less than 30 seconds after the issuance before it (rapid), how many
\* verify_otp calls with another code followed it before one succeeded
\* (wrong, counted up to MAX_ATTEMPTS), whether a verify_otp has returned True
\* since (used) and how many have (verified), whether one was made more than
\* 5 minutes after it (late), whether the calls to Redis were failing when it
\* was made (outage); and for an issuance by resend_otp, whether wrong codes
\* had been tried against the live record it replaced (over) and whether a
\* cooldown entry less than 30 seconds old was there when it was made (again).
LiveCode(s, email) ==
    IF s.redis_available
    THEN IF email \in DOMAIN s.redis_otp /\ "otp" \in DOMAIN s.redis_otp[email]
         THEN <<s.redis_otp[email].otp>> ELSE <<>>
    ELSE IF email \in DOMAIN s.otp_storage /\ ~(now > s.otp_storage[email].expires_at)
         THEN <<s.otp_storage[email].otp>> ELSE <<>>

NoteIssue(s, email, otp) ==
    Put(s.hist, email,
        [code |-> otp, at |-> now, wrong |-> 0, used |-> FALSE, late |-> FALSE,
         verified |-> 0, over |-> FALSE, again |-> FALSE,
         prev |-> LiveCode(s, email),
         outage |-> s.redis_available /\ ~s.redis_up,
         rapid |-> /\ email \in DOMAIN s.hist
                   /\ now - s.hist[email].at < Ticks(RESEND_COOLDOWN_SECONDS)])

NoteVerify(h, email, submitted, ok) ==
    IF email \notin DOMAIN h THEN h
    ELSE LET old == h[email]
         IN  [h EXCEPT ![email] =
                [old EXCEPT
                    !.wrong = IF submitted # old.code /\ ~old.used
                                 /\ old.wrong < MAX_ATTEMPTS
                              THEN old.wrong + 1 ELSE old.wrong,
                    !.used = old.used \/ ok,
                    !.verified = IF ok THEN old.verified + 1 ELSE old.verified,
                    !.late = old.late \/ now - old.at > Ticks(OTP_TTL_SECONDS)]]

\* ------------------------------------------------------------ OTP manager
\* A record that lives twice as long.
OtpExpiryTwice(t) == t + 2 * Ticks(OTP_TTL_SECONDS)
OtpExpiry(t) == t + Ticks(OTP_TTL_SECONDS)

\* store_otp, Redis branch: hset of otp, attempts and created_at, then expire.
StoreOtpRedis(s, email, otp) ==
    LET written == redis_hset(s, s.redis_otp, email, [otp |-> otp, attempts |-> 0]).m
    IN  [s EXCEPT !.redis_otp = redis_expire(s, written, email, OtpExpiry(now)).m]

\* store_otp, in-memory branch.
\* A store that keeps the record an email already has.
StoreOtpMemKeepsOld(s, email, otp) ==
    IF email \in DOMAIN s.otp_storage THEN s
    ELSE [s EXCEPT !.otp_storage =
            Put(@, email, [otp |-> otp, expires_at |-> OtpExpiry(now), attempts |-> 0])]

StoreOtpMem(s, email, otp) ==
    [s EXCEPT !.otp_storage =
        Put(@, email, [otp |-> otp, expires_at |-> OtpExpiry(now), attempts |-> 0])]

store_otp(s, email, otp) ==
    LET t == IF s.redis_available THEN StoreOtpRedis(s, email, otp)
             ELSE StoreOtpMem(s, email, otp)
    IN  [t EXCEPT !.hist = NoteIssue(s, email, otp)]

MsgVerified == "OTP verified successfully"
MsgTooMany == "Too many incorrect attempts"
MsgRedisNotFound == "OTP not found or expired"
MsgMemNotFound == "OTP not found"
MsgMemExpired == "OTP has expired"
MsgMemInvalid == "Invalid OTP"
MsgInvalidRemaining(remaining_attempts) ==
    "Invalid OTP. " \o ToString(remaining_attempts) \o " attempt(s) remaining"

\* The failed attempt that uses up the budget (Redis branch).
AttemptsExhaustedLate(new_attempts) == new_attempts > MAX_ATTEMPTS
AttemptsExhausted(new_attempts) == new_attempts >= MAX_ATTEMPTS
\* The record is locked before the code is looked at (in-memory branch).
\* A lock that closes one attempt early.
MemLockedEarly(attempts) == attempts >= MAX_ATTEMPTS - 1
MemLocked(attempts) == attempts >= MAX_ATTEMPTS
MemExpired(expires_at) == now > expires_at

VerifyOtpRedis(s, email, submitted_otp) ==
    IF ~redis_exists(s, s.redis_otp, email)
    THEN [s |-> s, ok |-> FALSE, msg |-> MsgRedisNotFound]
    ELSE LET stored_otp == redis_hget(s, s.redis_otp, email, "otp", None)
             attempts ==
                 AttemptsOf(redis_hget(s, s.redis_otp, email, "attempts", Some(0)))
             new_attempts == attempts + 1
         IN  IF stored_otp = Some(submitted_otp)
             THEN [s |-> [s EXCEPT !.redis_otp = redis_delete(s, @, email).m],
                   ok |-> TRUE, msg |-> MsgVerified]
             ELSE IF AttemptsExhausted(new_attempts)
             THEN [s |-> [s EXCEPT !.redis_otp = redis_delete(s, @, email).m],
                   ok |-> FALSE, msg |-> MsgTooMany]
             ELSE [s |-> [s EXCEPT !.redis_otp =
                             redis_hincrby(s, @, email, "attempts").m],
                   ok |-> FALSE,
                   msg |-> MsgInvalidRemaining(MAX_ATTEMPTS - new_attempts)]

VerifyOtpMem(s, email, submitted_otp) ==
    IF email \notin DOMAIN s.otp_storage
    THEN [s |-> s, ok |-> FALSE, msg |-> MsgMemNotFound]
    ELSE LET stored_data == s.otp_storage[email]
             deleted == [s EXCEPT !.otp_storage = Remove(@, email)]
         IN  IF MemExpired(stored_data.expires_at)
             THEN [s |-> deleted, ok |-> FALSE, msg |-> MsgMemExpired]
             ELSE IF MemLocked(stored_data.attempts)
             THEN [s |-> deleted, ok |-> FALSE, msg |-> MsgTooMany]
             ELSE IF stored_data.otp = submitted_otp
             THEN [s |-> deleted, ok |-> TRUE, msg |-> MsgVerified]
             ELSE [s |-> [s EXCEPT !.otp_storage[email].attempts = @ + 1],
                   ok |-> FALSE, msg |-> MsgMemInvalid]

verify_otp(s, email, submitted_otp) ==
    LET r == IF s.redis_available THEN VerifyOtpRedis(s, email, submitted_otp)
             ELSE VerifyOtpMem(s, email, submitted_otp)
    IN  [r EXCEPT !.s.hist = NoteVerify(@, email, submitted_otp, r.ok)]

\* cleanup_old_data: with Redis nothing to do; otherwise drop the expired
\* in-memory OTPs and the cooldown entries older than one hour.
cleanup_old_data(s) ==
    IF s.redis_available THEN s
    ELSE [s EXCEPT
            !.otp_storage =
                [e \in {x \in DOMAIN @ : ~(now > @[x].expires_at)} |-> @[e]],
            !.otp_resend_cooldown =
                [e \in {x \in DOMAIN @ :
                          ~(now - @[x] > Ticks(COOLDOWN_KEEP_SECONDS))} |-> @[e]]]

\* ------------------------------------------------------------ rate limiter
Limit(step) == IF step = "form" THEN FORM_LIMIT ELSE OTP_LIMIT
Window(step) == IF step = "form" THEN FORM_WINDOW_SECONDS ELSE OTP_WINDOW_SECONDS

\* A ceiling test that lets one more request through.
AtLimitOffByOne(current, limit) == current > limit
AtLimit(current, limit) == current >= limit

\* redis_helper.get(rate_key) and the branch index() takes on its value.
RateRead(s, step, ip) ==
    LET current == redis_get(s, s.redis_rate, <<step, ip>>)
    IN  IF current = None THEN "set"
        ELSE IF AtLimit(current[1].n, Limit(step)) THEN "reject"
        ELSE "incr"

\* SET key 1 EX window
RateSet(s, step, ip) ==
    [s EXCEPT !.redis_rate =
        redis_set(s, @, <<step, ip>>,
                  [n |-> 1, exp |-> now + Ticks(Window(step))]).m]

\* INCR key: an existing key keeps its expiry, a missing key is created as 1
\* without one.
\* (First an increment that counts every scope on the form counter.)
RateIncrShared(s, step, ip) ==
    [s EXCEPT !.redis_rate = redis_incr(s, @, <<"form", ip>>).m]

RateIncr(s, step, ip) ==
    [s EXCEPT !.redis_rate = redis_incr(s, @, <<step, ip>>).m]

RateWrite(s, step, ip, branch) ==
    IF branch = "set" THEN RateSet(s, step, ip)
    ELSE IF branch = "incr" THEN RateIncr(s, step, ip)
    ELSE s

\* ---------------------------------------------------------- responses
Resp(view, flash) == [view |-> view, flash |-> flash]
NoFinal == <<>>

\* `"expired" in message.lower()` and `"too many" in message.lower()`.
MentionsExpired(msg) == msg \in {MsgRedisNotFound, MsgMemExpired}
MentionsTooMany(msg) == msg = MsgTooMany

\* ------------------------------------------------------------- finalizer
\* get_next_submission_id: the id and the tracking data it hands back; a
\* failing lookup yields id 1 and no tracking data.
get_next_submission_id(s, env) ==
    IF ~env.lookupOk THEN [id |-> 1, tracking_data |-> {}]
    ELSE IF mongo_available
    THEN [id |-> Max(s.mongo_ids) + 1, tracking_data |-> {}]
    ELSE [id |-> Max(s.tracking_ids) + 1, tracking_data |-> s.tracking_ids]

\* process_verified_submission: save to MongoDB (submission_id is unique
\* there), else rewrite the JSON file from the tracking data; then send the
\* notification and clear the session only when that succeeded.
process_verified_submission(s, form_email, env) ==
    LET next == get_next_submission_id(s, env)
        mongo_saved == mongo_available /\ env.insertOk /\ next.id \notin s.mongo_ids
        s1 == IF mongo_saved
              THEN [s EXCEPT !.mongo_ids = @ \cup {next.id}, !.saves = @ + 1]
              ELSE IF env.fileOk
              THEN [s EXCEPT !.tracking_ids = next.tracking_data \cup {next.id},
                             !.saves = @ + 1]
              ELSE s
        saved == IF mongo_saved THEN "mongo" ELSE IF env.fileOk THEN "json" ELSE "none"
    IN  IF env.notifyOk
        THEN [s |-> [s1 EXCEPT !.session = NoFormData],
              resp |-> Resp("redirect", "sent"),
              final |-> <<[email |-> form_email, id |-> next.id, saved |-> saved]>>]
        ELSE [s |-> s1,
              resp |-> Resp("form", "notification failed"),
              final |-> <<[email |-> form_email, id |-> next.id, saved |-> saved]>>]

\* ---------------------------------------------------------------- handlers
\* (First a variant that takes the issued code and the payload back when
\* the mail is not sent.)
HandleFormSubmissionUndo(s, req, env) ==
    IF req.honeypot
    THEN [s |-> s, resp |-> Resp("redirect", "Spam detected."), final |-> NoFinal]
    ELSE IF ~req.fieldsOk \/ req.email = Blank
    THEN [s |-> s, resp |-> Resp("form", "validation errors"), final |-> NoFinal]
    ELSE LET s1 == [s EXCEPT !.session = req.email, !.saves = 0]
             s2 == store_otp(s1, req.email, env.newOtp)
         IN  IF env.mailOk
             THEN [s |-> s2, resp |-> Resp("otp", "code sent"), final |-> NoFinal]
             ELSE [s |-> [s EXCEPT !.hist = s2.hist],
                   resp |-> Resp("form", "code not sent"), final |-> NoFinal]
handle_form_submission(s, req, env) ==
    IF req.honeypot
    THEN [s |-> s, resp |-> Resp("redirect", "Spam detected."), final |-> NoFinal]
    ELSE IF ~req.fieldsOk \/ req.email = Blank
    THEN [s |-> s, resp |-> Resp("form", "validation errors"), final |-> NoFinal]
    ELSE LET s1 == [s EXCEPT !.session = req.email, !.saves = 0]
             s2 == store_otp(s1, req.email, env.newOtp)
         IN  [s |-> s2,
              resp |-> IF env.mailOk THEN Resp("otp", "code sent")
                       ELSE Resp("form", "code not sent"),
              final |-> NoFinal]

\* handle_otp_verification from the return of verify_otp on.
AfterVerifyOtp(v, env) ==
    IF ~v.ok
    THEN IF MentionsExpired(v.msg) \/ MentionsTooMany(v.msg)
         THEN [s |-> [v.s EXCEPT !.session = NoFormData],
               resp |-> Resp("form", v.msg), final |-> NoFinal]
         ELSE [s |-> v.s, resp |-> Resp("otp", v.msg), final |-> NoFinal]
    ELSE IF v.s.session = NoFormData
    THEN [s |-> v.s, resp |-> Resp("redirect", "form data expired"),
          final |-> NoFinal]
    ELSE process_verified_submission(v.s, v.s.session, env)

handle_otp_verification(s, req, env) ==
    IF req.email = Blank \/ req.otp = Blank
    THEN [s |-> s, resp |-> Resp("otp", "enter the code"), final |-> NoFinal]
    ELSE AfterVerifyOtp(verify_otp(s, req.email, req.otp), env)

\* int(30 - time_diff), for a time_diff below 30 seconds
RemainingTime(time_diff) ==
    (Ticks(RESEND_COOLDOWN_SECONDS) - time_diff) \div TicksPerSecond

InCooldown(time_diff) == time_diff < Ticks(RESEND_COOLDOWN_SECONDS)

CooldownResp(remaining_time) ==
    [view |-> "otp", flash |-> "cooldown", remaining |-> remaining_time]

\* resend_otp up to the answer of the cooldown read: the response of a
\* request that is turned away, or None for one that goes on.
\* (First a variant that does not look at the session.)
ResendRefusalAnySession(s, req) ==
    IF req.email = Blank
    THEN Some(Resp("redirect", "email required"))
    ELSE LET known == IF s.redis_available
                      THEN redis_get(s, s.redis_resend, req.email) # None
                      ELSE req.email \in DOMAIN s.otp_resend_cooldown
             last_time == IF s.redis_available
                          THEN redis_get(s, s.redis_resend, req.email)[1].val
                          ELSE s.otp_resend_cooldown[req.email]
         IN  IF known /\ InCooldown(now - last_time)
             THEN Some(CooldownResp(RemainingTime(now - last_time)))
             ELSE None
ResendRefusal(s, req) ==
    IF req.email = Blank
    THEN Some(Resp("redirect", "email required"))
    ELSE IF s.session = NoFormData \/ s.session # req.email
    THEN Some(Resp("redirect", "form data expired"))
    ELSE LET known == IF s.redis_available
                      THEN redis_get(s, s.redis_resend, req.email) # None
                      ELSE req.email \in DOMAIN s.otp_resend_cooldown
             last_time == IF s.redis_available
                          THEN redis_get(s, s.redis_resend, req.email)[1].val
                          ELSE s.otp_resend_cooldown[req.email]
         IN  IF known /\ InCooldown(now - last_time)
             THEN Some(CooldownResp(RemainingTime(now - last_time)))
             ELSE None

\* The rest of resend_otp: the cooldown entry is written, a new code is
\* stored and mailed.
ResendIssue(s, req, env) ==
    LET s1 == IF s.redis_available
              THEN [s EXCEPT !.redis_resend =
                      redis_set(s, @, req.email,
                          [val |-> now,
                           exp |-> now + Ticks(RESEND_COOLDOWN_SECONDS)]).m]
              ELSE [s EXCEPT !.otp_resend_cooldown = Put(@, req.email, now)]
        last == IF s.redis_available THEN s.redis_resend
                ELSE s.otp_resend_cooldown
        last_time == IF s.redis_available THEN last[req.email].val
                     ELSE last[req.email]
        again == /\ req.email \in DOMAIN last
                 /\ now - last_time < Ticks(RESEND_COOLDOWN_SECONDS)
        over == /\ req.email \in DOMAIN s.hist
                /\ LiveCode(s, req.email) # <<>>
                /\ s.hist[req.email].wrong > 0
    IN  [s |-> [store_otp(s1, req.email, env.newOtp)
                   EXCEPT !.hist[req.email].over = over,
                          !.hist[req.email].again = again],
         resp |-> IF env.mailOk THEN Resp("otp", "code sent")
                  ELSE Resp("otp", "code not sent")]

\* The route /resend-otp.
resend_otp(s, req, env) ==
    LET refusal == ResendRefusal(s, req)
    IN  IF refusal # None THEN [s |-> s, resp |-> refusal[1]]
        ELSE ResendIssue(s, req, env)

\* The body of a POST to "/" once the rate limiter has admitted it.
Dispatch(s, req, env) ==
    IF req.step = "form" THEN handle_form_submission(s, req, env)
    ELSE handle_otp_verification(s, req, env)

\* A POST to "/" with step "form" or "otp": cleanup, rate limit, handler.
\* (First an index that runs the handler also for a request it rejects.)
IndexLateReject(s, req, env) ==
    LET s0 == cleanup_old_data(s)
        branch == IF s0.redis_available THEN RateRead(s0, req.step, req.ip)
                  ELSE "none"
        r == Dispatch(RateWrite(s0, req.step, req.ip, branch), req, env)
    IN  IF branch = "reject"
        THEN [r EXCEPT !.resp = Resp("form", "rate limited")]
        ELSE r

index(s, req, env) ==
    LET s0 == cleanup_old_data(s)
        branch == IF s0.redis_available THEN RateRead(s0, req.step, req.ip)
                  ELSE "none"
    IN  IF branch = "reject"
        THEN [s |-> s0, resp |-> Resp("form", "rate limited"), final |-> NoFinal]
        ELSE Dispatch(RateWrite(s0, req.step, req.ip, branch), req, env)

\* ------------------------------------------------------------- requests
Steps == {"form", "otp"}

\* What the collaborators do during one request: the code generate_otp
\* draws, whether the OTP mail and the notification mail are delivered,
\* whether the id lookup, the MongoDB insert and the file write succeed.
Envs ==
    [newOtp : Codes, mailOk : BOOLEAN, notifyOk : BOOLEAN,
     lookupOk : BOOLEAN, insertOk : BOOLEAN, fileOk : BOOLEAN]

QuietEnv ==
    [newOtp |-> "111111", mailOk |-> TRUE, notifyOk |-> TRUE,
     lookupOk |-> TRUE, insertOk |-> FALSE, fileOk |-> FALSE]

\* The posted forms: the honeypot field, whether name, comments and phone
\* pass validation, the email field and the otp field.
Requests(emails) ==
    [step : Steps, ip : Ips, honeypot : BOOLEAN, fieldsOk : BOOLEAN,
     email : emails \cup {Blank}, otp : Codes \cup {Blank}]

\* A handler reads only some fields: the others are held fixed. Form step:
\* a honeypot hit, a validation failure, or a valid form with or without an
\* email. OTP step: any email and code.
FormRequests(emails) ==
    {req \in Requests(emails) :
        /\ req.step = "form"
        /\ req.otp = Blank
        /\ (req.honeypot => req.fieldsOk /\ req.email = Blank)
        /\ (~req.fieldsOk => req.email = Blank)}

OtpRequests(emails) ==
    {req \in Requests(emails) : req.step = "otp" /\ ~req.honeypot /\ req.fieldsOk}

\* Forms that the handlers turn away before they touch the OTP state.
EarlyReturnRequests ==
    {req \in Requests({}) :
        req.otp = Blank /\ req.fieldsOk /\ (req.step = "form") = req.honeypot}

\* The collaborators' outcomes a request can meet: the OTP mail when a code
\* is issued, the notification mail when a submission is finalized (here
\* with nothing persisted; the persistence outcomes have their own inputs).
IssueEnvs ==
    {env \in Envs : env.notifyOk /\ env.lookupOk /\ ~env.insertOk /\ ~env.fileOk}

FinalEnvs ==
    {env \in Envs :
        env.mailOk /\ env.newOtp = "111111" /\ env.lookupOk
        /\ ~env.insertOk /\ ~env.fileOk}

Issues(req) == ~req.honeypot /\ req.fieldsOk /\ req.email # Blank

FormEnvsFor(req) == IF Issues(req) THEN IssueEnvs ELSE {QuietEnv}

OtpEnvsFor(s, req) ==
    IF req.email # Blank /\ req.otp # Blank /\ verify_otp(s, req.email, req.otp).ok
    THEN FinalEnvs ELSE {QuietEnv}

\* What no request writes: the availability flags, the clock, the server's
\* reachability; and what only the requests of other specifications write.
UnchangedEnv ==
    UNCHANGED <<redis_available, mongo_available, now, ticks, redis_up, twin>>

\* ------------------------------------------------------------- actions
\* GET "/": cleanup_old_data and the empty form.
IndexGet ==
    /\ Commit(cleanup_old_data(St))
    /\ UnchangedEnv
    /\ UNCHANGED <<wins, inflight>>

\* A POST to "/" that the rate limiter has let through: cleanup_old_data,
\* then the handler of its step.
FormSubmission(req, env) ==
    /\ Commit(handle_form_submission(cleanup_old_data(St), req, env).s)
    /\ UnchangedEnv
    /\ UNCHANGED <<wins, inflight>>

OtpVerification(req, env) ==
    /\ Commit(handle_otp_verification(cleanup_old_data(St), req, env).s)
    /\ UnchangedEnv
    /\ UNCHANGED <<wins, inflight>>

ResendOtp(req, env) ==
    /\ Commit(resend_otp(St, req, env).s)
    /\ UnchangedEnv
    /\ UNCHANGED <<wins, inflight>>

\* Time passes; Redis drops the keys whose time-to-live has run out.
Tick(d) ==
    /\ ticks < MaxTicks
    /\ ticks' = ticks + 1
    /\ now' = now + d
    /\ redis_otp' = RedisExpire(redis_otp, now + d)
    /\ redis_resend' = RedisExpire(redis_resend, now + d)
    /\ redis_rate' = RedisExpire(redis_rate, now + d)
    /\ UNCHANGED <<redis_available, mongo_available, otp_storage,
                   otp_resend_cooldown, session, mongo_ids, tracking_ids,
                   hist, wins, inflight, redis_up, saves, twin, detached>>

\* Clock steps that reach each deadline of the OTP flow and its far side.
OtpDeltas ==
    {1, Ticks(RESEND_COOLDOWN_SECONDS) - 1, Ticks(OTP_TTL_SECONDS)}

\* The in-memory twin before any request: no payload, no response.
NoTwin == [session |-> NoFormData, redis |-> None, mem |-> None]

Init ==
    /\ redis_available \in BOOLEAN
    /\ mongo_available \in BOOLEAN
    /\ now = 0
    /\ ticks = 0
    /\ redis_otp = <<>>
    /\ redis_resend = <<>>
    /\ redis_rate = <<>>
    /\ otp_storage = <<>>
    /\ otp_resend_cooldown = <<>>
    /\ session = NoFormData
    /\ mongo_ids = {}
    /\ tracking_ids = {}
    /\ hist = <<>>
    /\ wins = <<>>
    /\ inflight = EmptyBag
    /\ redis_up = redis_available
    /\ saves = 0
    /\ twin = NoTwin
    /\ detached = <<>>

\* The OTP flow of one email address over time.
OneEmail == {"a@x.com"}

Next ==
    \/ IndexGet
    \/ \E req \in FormRequests(OneEmail) : \E env \in FormEnvsFor(req) :
          FormSubmission(req, env)
    \/ \E req \in OtpRequests(OneEmail) :
          \E env \in OtpEnvsFor(cleanup_old_data(St), req) :
             OtpVerification(req, env)
    \/ \E e \in OneEmail \cup {Blank}, env \in IssueEnvs :
          ResendOtp([email |-> e], env)
    \/ \E d \in OtpDeltas : Tick(d)

Spec == Init /\ [][Next]_vars

\* The OTP flows of two email addresses in one client session, at one time.
NextPair ==
    \/ \E req \in FormRequests(Emails) : \E env \in FormEnvsFor(req) :
          FormSubmission(req, env)
    \/ \E req \in OtpRequests(Emails) :
          \E env \in OtpEnvsFor(cleanup_old_data(St), req) :
             OtpVerification(req, env)
    \/ \E e \in Emails \cup {Blank}, env \in IssueEnvs :
          ResendOtp([email |-> e], env)

SpecPair == Init /\ [][NextPair]_vars

\* ------------------------------------------------------- rate limiter
\* wins[<<step, ip>>] remembers the window a network address is in: the time
\* of the first POST after the window before had run out, and how many POSTs
\* of this window went on to their handler (counted up to one past the limit).
WindowActive(w, step, ip) ==
    /\ <<step, ip>> \in DOMAIN w
    /\ now - w[<<step, ip>>].start < Ticks(Window(step))

Admitted(w, step, ip) ==
    IF WindowActive(w, step, ip) THEN w[<<step, ip>>].admitted ELSE 0

Rejected(resp) == resp.flash = "rate limited"

NoteWindow(w, req, resp) ==
    LET before == Admitted(w, req.step, req.ip)
        start == IF WindowActive(w, req.step, req.ip)
                 THEN w[<<req.step, req.ip>>].start ELSE now
        after == IF Rejected(resp) \/ before > Limit(req.step)
                 THEN before ELSE before + 1
    IN  Put(w, <<req.step, req.ip>>, [start |-> start, admitted |-> after])

\* A POST to "/", served from its first line to its last.
IndexPost(req, env) ==
    LET r == index(St, req, env)
    IN  /\ Commit(r.s)
        /\ wins' = NoteWindow(wins, req, r.resp)
        /\ UnchangedEnv
        /\ UNCHANGED inflight

\* Clock steps that reach the end of each window and its far side.
RateDeltas ==
    {1, Ticks(OTP_WINDOW_SECONDS) - 1, Ticks(FORM_WINDOW_SECONDS) - 1}

\* One network address posting one request after the other.
NextRate ==
    \/ \E req \in EarlyReturnRequests : IndexPost(req, QuietEnv)
    \/ \E d \in RateDeltas : Tick(d)

SpecRate == Init /\ [][NextRate]_vars

\* A POST to "/" up to the answer of redis_helper.get: a request that finds
\* the counter at the limit is answered at once, any other is in flight with
\* the branch it has taken.
IndexBegin(req) ==
    LET s0 == cleanup_old_data(St)
        branch == IF s0.redis_available THEN RateRead(s0, req.step, req.ip)
                  ELSE "none"
    IN  /\ BagCardinality(inflight) < MaxInFlight
        /\ Commit(s0)
        /\ inflight' = IF branch = "reject" THEN inflight
                       ELSE inflight (+) SetToBag({[req |-> req, branch |-> branch]})
        /\ UnchangedEnv
        /\ UNCHANGED wins

\* The rest of a request in flight: the write to the counter, then the
\* handler.
IndexFinish(p, env) ==
    /\ BagIn(p, inflight)
    /\ Commit(Dispatch(RateWrite(St, p.req.step, p.req.ip, p.branch), p.req, env).s)
    /\ inflight' = inflight (-) SetToBag({p})
    /\ UnchangedEnv
    /\ UNCHANGED wins

\* One network address with up to MaxInFlight requests at a time.
NextRateConc ==
    \/ \E req \in EarlyReturnRequests : IndexBegin(req)
    \/ \E p \in BagToSet(inflight) : IndexFinish(p, QuietEnv)
    \/ \E d \in RateDeltas : Tick(d)

SpecRateConc == Init /\ [][NextRateConc]_vars

\* -------------------------------------------------------- both backends
\* What a client sees of a response: the page, and the result of verify_otp
\* by its kind where the flashed message is one of verify_otp.
Kind(flash) ==
    IF flash = MsgVerified THEN "Verified"
    ELSE IF flash \in {MsgMemInvalid} \cup
                      {MsgInvalidRemaining(k) : k \in 1..MAX_ATTEMPTS}
    THEN "InvalidCode"
    ELSE IF flash = MsgTooMany THEN "TooManyAttempts"
    ELSE IF flash \in {MsgRedisNotFound, MsgMemNotFound, MsgMemExpired}
    THEN "Expired/NotFound"
    ELSE flash

Outward(resp) == [view |-> resp.view, result |-> Kind(resp.flash)]

\* The program with Redis connected and reachable, and the program that
\* found no Redis at start-up, with the session of its own client.
RedisWorld == St
MemWorld ==
    [St EXCEPT !.redis_available = FALSE, !.redis_up = FALSE,
               !.session = twin.session]

\* One request served by both programs: the first writes the Redis keys, the
\* second the in-memory dicts. The history of the issuances is not kept here.
CommitBoth(r, m) ==
    /\ Served(St)
    /\ Commit([r.s EXCEPT !.otp_storage = m.s.otp_storage,
                          !.otp_resend_cooldown = m.s.otp_resend_cooldown,
                          !.hist = hist])
    /\ twin' = [session |-> m.s.session, redis |-> Some(Outward(r.resp)),
                mem |-> Some(Outward(m.resp))]
    /\ UNCHANGED <<redis_available, mongo_available, now, ticks, redis_up,
                   wins, inflight>>

TwinFormSubmission(req, env) ==
    CommitBoth(handle_form_submission(cleanup_old_data(RedisWorld), req, env),
               handle_form_submission(cleanup_old_data(MemWorld), req, env))

TwinOtpVerification(req, env) ==
    CommitBoth(handle_otp_verification(cleanup_old_data(RedisWorld), req, env),
               handle_otp_verification(cleanup_old_data(MemWorld), req, env))

TwinResendOtp(req, env) ==
    CommitBoth(resend_otp(RedisWorld, req, env), resend_otp(MemWorld, req, env))

NextTwin ==
    \/ \E req \in FormRequests(OneEmail) : \E env \in FormEnvsFor(req) :
          TwinFormSubmission(req, env)
    \/ \E req \in OtpRequests(OneEmail) :
          \E env \in OtpEnvsFor(cleanup_old_data(RedisWorld), req)
                     \cup OtpEnvsFor(cleanup_old_data(MemWorld), req) :
             TwinOtpVerification(req, env)
    \/ \E e \in OneEmail \cup {Blank}, env \in IssueEnvs :
          TwinResendOtp([email |-> e], env)
    \/ \E d \in OtpDeltas : Tick(d)

SpecTwin == Init /\ [][NextTwin]_vars

\* ---------------------------------------------------------------- outage
\* The Redis server stops answering, and answers again.
Outage ==
    /\ redis_up
    /\ redis_up' = FALSE
    /\ UNCHANGED <<redis_available, mongo_available, now, ticks, redis_otp,
                   redis_resend, redis_rate, otp_storage, otp_resend_cooldown,
                   session, mongo_ids, tracking_ids, hist, wins, inflight,
                   saves, twin, detached>>

Recover ==
    /\ ~redis_up
    /\ redis_up' = TRUE
    /\ UNCHANGED <<redis_available, mongo_available, now, ticks, redis_otp,
                   redis_resend, redis_rate, otp_storage, otp_resend_cooldown,
                   session, mongo_ids, tracking_ids, hist, wins, inflight,
                   saves, twin, detached>>

\* The OTP flow of one email address while the server comes and goes.
NextOutage ==
    \/ \E req \in FormRequests(OneEmail) : \E env \in FormEnvsFor(req) :
          FormSubmission(req, env)
    \/ \E req \in OtpRequests(OneEmail) :
          \E env \in OtpEnvsFor(cleanup_old_data(St), req) :
             OtpVerification(req, env)
    \/ \E e \in OneEmail \cup {Blank}, env \in IssueEnvs :
          ResendOtp([email |-> e], env)
    \/ Outage
    \/ Recover

SpecOutage == Init /\ [][NextOutage]_vars

\* ------------------------------------------------- concurrent verification
\* Requests run on threads of one process: between two statements of one
\* verify_otp call another call can run. A call in flight is its request,
\* the statement it is at, and the values it has read into its locals.
\* With Redis one step is one RedisHelper call; without it one step is one
\* statement on the shared dict, and "stored_data['attempts'] += 1" is a
\* load and a store.
VerifyCall(req, pc) ==
    [req |-> req, pc |-> pc, stored_otp |-> None, attempts |-> 0]

Returned(s, ok, msg) == [s |-> s, done |-> TRUE, ok |-> ok, msg |-> msg]
Running(s, p) == [s |-> s, done |-> FALSE, p |-> p]

MsgKeyError == "KeyError"

\* One RedisHelper call of the Redis branch of verify_otp.
VerifyStepRedis(s, p) ==
    LET email == p.req.email
    IN  IF p.pc = "exists"
        THEN IF ~redis_exists(s, s.redis_otp, email)
             THEN Returned(s, FALSE, MsgRedisNotFound)
             ELSE Running(s, [p EXCEPT !.pc = "hget_otp"])
        ELSE IF p.pc = "hget_otp"
        THEN Running(s, [p EXCEPT
                 !.stored_otp = redis_hget(s, s.redis_otp, email, "otp", None),
                 !.pc = "hget_attempts"])
        ELSE IF p.pc = "hget_attempts"
        THEN Running(s, [p EXCEPT
                 !.attempts = AttemptsOf(
                     redis_hget(s, s.redis_otp, email, "attempts", Some(0))),
                 !.pc = "write"])
        ELSE IF p.stored_otp = Some(p.req.otp)
        THEN Returned([s EXCEPT !.redis_otp = redis_delete(s, @, email).m],
                      TRUE, MsgVerified)
        ELSE IF AttemptsExhausted(p.attempts + 1)
        THEN Returned([s EXCEPT !.redis_otp = redis_delete(s, @, email).m],
                      FALSE, MsgTooMany)
        ELSE Returned([s EXCEPT !.redis_otp =
                          redis_hincrby(s, @, email, "attempts").m],
                      FALSE,
                      MsgInvalidRemaining(MAX_ATTEMPTS - (p.attempts + 1)))

\* The dict object a call holds as stored_data: the entry of otp_storage,
\* or, once a call has deleted the entry, the object that was deleted.
StoredData(s, email) ==
    IF email \in DOMAIN s.otp_storage THEN s.otp_storage[email]
    ELSE s.detached[email]

\* del otp_storage[email]: a KeyError when another call deleted it first.
DelOtp(s, email, ok, msg) ==
    IF email \in DOMAIN s.otp_storage
    THEN Returned([s EXCEPT !.detached = Put(@, email, s.otp_storage[email]),
                            !.otp_storage = Remove(@, email)],
                  ok, msg)
    ELSE Returned(s, FALSE, MsgKeyError)

\* stored_data['attempts'] = value
SetAttempts(s, email, value) ==
    IF email \in DOMAIN s.otp_storage
    THEN [s EXCEPT !.otp_storage[email].attempts = value]
    ELSE [s EXCEPT !.detached[email].attempts = value]

\* One statement of the in-memory branch of verify_otp.
VerifyStepMem(s, p) ==
    LET email == p.req.email
    IN  IF p.pc = "member"
        THEN IF email \notin DOMAIN s.otp_storage
             THEN Returned(s, FALSE, MsgMemNotFound)
             ELSE Running(s, [p EXCEPT !.pc = "stored_data"])
        ELSE IF p.pc = "stored_data"
        THEN IF email \notin DOMAIN s.otp_storage
             THEN Returned(s, FALSE, MsgKeyError)
             ELSE Running(s, [p EXCEPT !.pc = "expired"])
        ELSE IF p.pc = "expired"
        THEN Running(s, [p EXCEPT !.pc =
                 IF MemExpired(StoredData(s, email).expires_at)
                 THEN "del_expired" ELSE "locked"])
        ELSE IF p.pc = "del_expired"
        THEN DelOtp(s, email, FALSE, MsgMemExpired)
        ELSE IF p.pc = "locked"
        THEN Running(s, [p EXCEPT !.pc =
                 IF MemLocked(StoredData(s, email).attempts)
                 THEN "del_locked" ELSE "compare"])
        ELSE IF p.pc = "del_locked"
        THEN DelOtp(s, email, FALSE, MsgTooMany)
        ELSE IF p.pc = "compare"
        THEN Running(s, [p EXCEPT !.pc =
                 IF StoredData(s, email).otp = p.req.otp
                 THEN "del_verified" ELSE "load"])
        ELSE IF p.pc = "del_verified"
        THEN DelOtp(s, email, TRUE, MsgVerified)
        ELSE IF p.pc = "load"
        THEN Running(s, [p EXCEPT !.attempts = StoredData(s, email).attempts,
                                  !.pc = "store"])
        ELSE Returned(SetAttempts(s, email, p.attempts + 1), FALSE, MsgMemInvalid)

VerifyStepOf(s, p) ==
    IF s.redis_available THEN VerifyStepRedis(s, p) ELSE VerifyStepMem(s, p)

\* The requests that reach verify_otp.
VerifyRequests == {req \in OtpRequests(OneEmail) : req.email # Blank /\ req.otp # Blank}

\* A POST of the OTP step up to the entry of verify_otp.
VerifyBegin(req) ==
    /\ BagCardinality(inflight) < MaxInFlight
    /\ LET s0 == cleanup_old_data(St)
       IN  /\ Commit(s0)
           /\ inflight' = inflight (+) SetToBag({VerifyCall(req,
                  IF s0.redis_available THEN "exists" ELSE "member")})
    /\ UnchangedEnv
    /\ UNCHANGED wins

\* The next step of a call in flight; when verify_otp returns, the rest of
\* handle_otp_verification runs with it.
VerifyStep(p, env) ==
    /\ BagIn(p, inflight)
    /\ LET r == VerifyStepOf(St, p)
       IN  IF r.done
           THEN /\ env \in (IF r.ok THEN FinalEnvs ELSE {QuietEnv})
                /\ Commit(AfterVerifyOtp(
                      [s |-> [r.s EXCEPT !.hist =
                                 NoteVerify(@, p.req.email, p.req.otp, r.ok)],
                       ok |-> r.ok, msg |-> r.msg], env).s)
                /\ inflight' = inflight (-) SetToBag({p})
           ELSE /\ env = QuietEnv
                /\ Commit(r.s)
                /\ inflight' = (inflight (-) SetToBag({p})) (+) SetToBag({r.p})
    /\ UnchangedEnv
    /\ UNCHANGED wins

\* A code is issued while no verification is in flight, so that the object a
\* call holds is the one issued last.
IssueQuiet(req, env) ==
    /\ inflight = EmptyBag
    /\ FormSubmission(req, env)

NextVerifyConc ==
    \/ \E req \in FormRequests(OneEmail) : \E env \in FormEnvsFor(req) :
          IssueQuiet(req, env)
    \/ \E req \in VerifyRequests : VerifyBegin(req)
    \/ \E p \in BagToSet(inflight) : \E env \in FinalEnvs \cup {QuietEnv} :
          VerifyStep(p, env)

SpecVerifyConc == Init /\ [][NextVerifyConc]_vars

\* ------------------------------------------------------------ persistence
\* The OTP flow of one address with every outcome of the id lookup, the
\* MongoDB insert, the file write and the notification mail. Submission ids
\* are handed out up to MaxSubmissions.
PersistEnvs == {env \in Envs : env.mailOk /\ env.newOtp = "111111"}

PersistEnvsFor(s, req) ==
    IF req.email # Blank /\ req.otp # Blank /\ verify_otp(s, req.email, req.otp).ok
    THEN PersistEnvs ELSE {QuietEnv}

PersistVerification(req, env) ==
    /\ Max(mongo_ids \cup tracking_ids) < MaxSubmissions
    /\ OtpVerification(req, env)

NextPersist ==
    \/ \E req \in FormRequests(OneEmail) : \E env \in FormEnvsFor(req) :
          FormSubmission(req, env)
    \/ \E req \in OtpRequests(OneEmail) :
          \E env \in PersistEnvsFor(cleanup_old_data(St), req) :
             PersistVerification(req, env)
    \/ \E e \in OneEmail \cup {Blank}, env \in IssueEnvs :
          ResendOtp([email |-> e], env)

SpecPersist == Init /\ [][NextPersist]_vars

\* --------------------------------------------------------- concurrent resend
\* A POST to /resend-otp up to the answer of the cooldown read: a request
\* that is turned away is answered at once, any other is in flight.
ResendBegin(req) ==
    /\ BagCardinality(inflight) < MaxInFlight
    /\ inflight' = IF ResendRefusal(St, req) # None THEN inflight
                   ELSE inflight (+) SetToBag({[req |-> req]})
    /\ UNCHANGED <<redis_available, mongo_available, now, ticks, redis_otp,
                   redis_resend, redis_rate, otp_storage, otp_resend_cooldown,
                   session, mongo_ids, tracking_ids, hist, wins, redis_up,
                   saves, twin, detached>>

\* The rest of a resend in flight.
ResendFinish(p, env) ==
    /\ BagIn(p, inflight)
    /\ Commit(ResendIssue(St, p.req, env).s)
    /\ inflight' = inflight (-) SetToBag({p})
    /\ UnchangedEnv
    /\ UNCHANGED wins

\* One client posting the form and up to MaxInFlight resends at a time.
NextResendConc ==
    \/ \E req \in FormRequests(OneEmail) : \E env \in FormEnvsFor(req) :
          FormSubmission(req, env)
    \/ \E e \in OneEmail \cup {Blank} : ResendBegin([email |-> e])
    \/ \E p \in BagToSet(inflight) : \E env \in IssueEnvs : ResendFinish(p, env)
    \/ \E d \in OtpDeltas : Tick(d)

SpecResendConc == Init /\ [][NextResendConc]_vars

\* ------------------------------------------------------- two addresses
\* Two network addresses posting to both scopes, one request after the
\* other, within one window.
TwoIps == {"10.0.0.1", "10.0.0.2"}

FrameRequests ==
    {[req EXCEPT !.ip = ip] : req \in EarlyReturnRequests, ip \in TwoIps}

NextRateFrame == \E req \in FrameRequests : IndexPost(req, QuietEnv)

SpecRateFrame == Init /\ [][NextRateFrame]_vars

\* ------------------------------------------------- counting admissions
\* The rest of a request in flight, with the admission noted in wins.
IndexFinishCounted(p, env) ==
    LET r == Dispatch(RateWrite(St, p.req.step, p.req.ip, p.branch), p.req, env)
    IN  /\ BagIn(p, inflight)
        /\ Commit(r.s)
        /\ inflight' = inflight (-) SetToBag({p})
        /\ wins' = NoteWindow(wins, p.req, r.resp)
        /\ UnchangedEnv

\* One network address with up to MaxInFlight requests at a time, within one
\* window.
NextRateCount ==
    \/ \E req \in EarlyReturnRequests : IndexBegin(req)
    \/ \E p \in BagToSet(inflight) : IndexFinishCounted(p, QuietEnv)

SpecRateCount == Init /\ [][NextRateCount]_vars

\* ------------------------------------------------------ rejected forms
\* One client posting forms through the rate limiter, verifying and asking
\* for resends, over time; every mail is delivered and every code generated
\* is the same.
\* Clock steps that stay within the cooldown and that pass the OTP's expiry.
RejectDeltas == {1, Ticks(OTP_TTL_SECONDS)}

NextReject ==
    \/ \E req \in FormRequests(OneEmail) : IndexPost(req, QuietEnv)
    \/ \E req \in VerifyRequests : OtpVerification(req, QuietEnv)
    \/ \E e \in OneEmail : ResendOtp([email |-> e], QuietEnv)
    \/ \E d \in RejectDeltas : Tick(d)

SpecReject == Init /\ [][NextReject]_vars

\* ------------------------------------------- re-issue during verification
\* A form submission that stores a new code while verifications are in
\* flight. On the in-memory backend a call in flight holds the dict object it
\* fetched, which StoredData tells from the entry only while no new entry
\* takes its place: there the code is issued with no verification in flight.
Reissue(req, env) ==
    /\ IF redis_available THEN TRUE ELSE inflight = EmptyBag
    /\ FormSubmission(req, env)

NextReissueConc ==
    \/ \E req \in FormRequests(OneEmail) : \E env \in FormEnvsFor(req) :
          Reissue(req, env)
    \/ \E req \in VerifyRequests : VerifyBegin(req)
    \/ \E p \in BagToSet(inflight) : \E env \in FinalEnvs \cup {QuietEnv} :
          VerifyStep(p, env)

SpecReissueConc == Init /\ [][NextReissueConc]_vars

\* ------------------------------------------- store_otp and verify_otp twice
\* One call of store_otp or verify_otp made on both programs, with the
\* history of the issuances kept.
CommitOtpBoth(r, m) ==
    /\ Served(St)
    /\ Commit([r.s EXCEPT !.otp_storage = m.s.otp_storage])
    /\ twin' = [session |-> m.s.session, redis |-> Some(Outward(r.resp)),
                mem |-> Some(Outward(m.resp))]
    /\ UNCHANGED <<redis_available, mongo_available, now, ticks, redis_up,
                   wins, inflight>>

TwinStoreOtp(e, c) ==
    CommitOtpBoth([s |-> store_otp(RedisWorld, e, c), resp |-> Resp("otp", "stored")],
                  [s |-> store_otp(MemWorld, e, c), resp |-> Resp("otp", "stored")])

TwinVerifyOtp(e, c) ==
    LET r == verify_otp(RedisWorld, e, c)
        m == verify_otp(MemWorld, e, c)
    IN  CommitOtpBoth([s |-> r.s, resp |-> Resp("otp", r.msg)],
                      [s |-> m.s, resp |-> Resp("otp", m.msg)])

\* Sequences of issue, verify and clock-advance operations for one email.
NextOtpTwin ==
    \/ \E e \in OneEmail, c \in Codes : TwinStoreOtp(e, c)
    \/ \E e \in OneEmail, c \in Codes : TwinVerifyOtp(e, c)
    \/ \E d \in OtpDeltas : Tick(d)

SpecOtpTwin == Init /\ [][NextOtpTwin]_vars

\* ------------------------------------------------- the OTP mail is not sent
\* The OTP flow of one email address when send_otp_email raises on every
\* form submission.
MailFailEnvs == {env \in IssueEnvs : ~env.mailOk}

NextMailFail ==
    \/ \E req \in FormRequests(OneEmail) :
          \E env \in (IF Issues(req) THEN MailFailEnvs ELSE {QuietEnv}) :
             FormSubmission(req, env)
    \/ \E req \in OtpRequests(OneEmail) :
          \E env \in OtpEnvsFor(cleanup_old_data(St), req) :
             OtpVerification(req, env)
    \/ \E d \in OtpDeltas : Tick(d)

SpecMailFail == Init /\ [][NextMailFail]_vars

TypeOK ==
    /\ session \in Emails \cup {NoFormData}
    /\ DOMAIN hist \subseteq Emails

\* ------------------------------------------------------------- claims
OtpTtl == Ticks(OTP_TTL_SECONDS)
Age(e) == now - hist[e].at
NotFoundMsgs == {MsgRedisNotFound, MsgMemNotFound}
GoneMsgs == {MsgRedisNotFound, MsgMemNotFound, MsgMemExpired}
NoRecord(s, e) == e \notin DOMAIN s.redis_otp /\ e \notin DOMAIN s.otp_storage

\* C1: whenever handle_otp_verification hands a payload to
\* process_verified_submission, the payload's email is the email whose code
\* verify_otp has just accepted.
C1_FinalizedEmailIsVerifiedEmail ==
    \A req \in OtpRequests(Emails) : \A env \in FinalEnvs :
        LET r == handle_otp_verification(cleanup_old_data(St), req, env)
        IN  r.final # NoFinal => r.final[1].email = req.email

\* C2: after store_otp(E, c), a verify_otp(E, c) made within 5 minutes, before
\* any verify_otp(E, c) has succeeded and with fewer than 3 wrong codes tried,
\* returns Verified; once one has succeeded, every verify_otp(E, c) returns
\* NotFound until a new issuance.
C2_OneTimeUse ==
    \A e \in DOMAIN hist :
        LET r == verify_otp(St, e, hist[e].code)
        IN  /\ (~hist[e].used /\ hist[e].wrong < MAX_ATTEMPTS /\ Age(e) < OtpTtl)
                  => (r.ok /\ r.msg = MsgVerified)
            /\ hist[e].used => (~r.ok /\ r.msg \in NotFoundMsgs)

\* A first verify_otp(E, c) has returned Verified and the replay finds nothing.
C2_Witness ==
    \E e \in DOMAIN hist :
        /\ hist[e].used /\ hist[e].wrong = 0 /\ Age(e) < OtpTtl
        /\ verify_otp(St, e, hist[e].code).msg \in NotFoundMsgs

\* C3: on a live record, the first wrong code returns InvalidCode with 2
\* attempts remaining, the second InvalidCode with 1 remaining, the third
\* TooManyAttempts and deletes the record, and after three wrong codes every
\* verify_otp returns NotFound. (A message that names no count is let pass as
\* InvalidCode.)
C3_ThreeWrongCodes ==
    \A e \in DOMAIN hist : \A c \in Codes :
        LET r == verify_otp(St, e, c)
            h == hist[e]
        IN  (~h.used /\ Age(e) < OtpTtl) =>
               /\ (c # h.code /\ h.wrong = 0)
                     => r.msg \in {MsgMemInvalid, MsgInvalidRemaining(2)}
               /\ (c # h.code /\ h.wrong = 1)
                     => r.msg \in {MsgMemInvalid, MsgInvalidRemaining(1)}
               /\ (c # h.code /\ h.wrong = 2)
                     => (r.msg = MsgTooMany /\ NoRecord(r.s, e))
               /\ h.wrong = MAX_ATTEMPTS => r.msg \in NotFoundMsgs

\* C4: a verify_otp with the correct code made after exactly two wrong codes
\* on the same unexpired record returns Verified and deletes the record.
C4_CorrectOnThirdAttempt ==
    \A e \in DOMAIN hist :
        (~hist[e].used /\ hist[e].wrong = 2 /\ Age(e) < OtpTtl) =>
            LET r == verify_otp(St, e, hist[e].code)
            IN  r.ok /\ r.msg = MsgVerified /\ NoRecord(r.s, e)

\* The third attempt, with the correct code, has been verified.
C4_Witness ==
    \E e \in DOMAIN hist :
        hist[e].used /\ hist[e].wrong = 2 /\ NoRecord(St, e)

\* C5: each email has at most one record, and verify_otp accepts no code but
\* the one of the latest store_otp for that email: a replaced code is not
\* accepted, also within its own 5 minutes.
C5_OnlyLatestCodeVerifies ==
    \A e \in Emails : \A c \in Codes :
        verify_otp(St, e, c).ok => (e \in DOMAIN hist /\ c = hist[e].code)

\* A live record holding c1 has been replaced by c2 and c1 has been tried.
C5_Witness ==
    \E e \in DOMAIN hist :
        /\ hist[e].prev # <<>> /\ hist[e].prev[1] # hist[e].code
        /\ hist[e].wrong = 1 /\ ~hist[e].used /\ Age(e) = 0
        /\ ~verify_otp(St, e, hist[e].prev[1]).ok

\* C6: more than 5 minutes after its issuance a record accepts no code:
\* verify_otp returns Expired or NotFound, never Verified.
C6_ExpiredNeverVerifies ==
    \A e \in DOMAIN hist : \A c \in Codes :
        Age(e) > OtpTtl =>
            LET r == verify_otp(St, e, c)
            IN  ~r.ok /\ r.msg \in GoneMsgs

\* A verify_otp was made after the 5 minutes of a record nobody had verified
\* or locked.
C6_Witness ==
    \E e \in DOMAIN hist :
        /\ hist[e].late /\ ~hist[e].used /\ hist[e].wrong = 0
        /\ Age(e) > OtpTtl

\* C7: a resend_otp for the session's email either finds a resend made less
\* than 30 seconds ago, and then issues nothing and reports a cooldown with
\* more than 0 seconds remaining, or it succeeds, and then no code but the new
\* one is accepted.
C7_ResendCooldown ==
    \A e \in OneEmail : \A env \in IssueEnvs :
        session = e =>
            LET r == resend_otp(St, [email |-> e], env)
                last == IF redis_available THEN redis_resend ELSE otp_resend_cooldown
                last_time == IF redis_available THEN last[e].val ELSE last[e]
            IN  IF e \in DOMAIN last /\ now - last_time < Ticks(RESEND_COOLDOWN_SECONDS)
                THEN r.s = St /\ r.resp.flash = "cooldown" /\ r.resp.remaining > 0
                ELSE /\ r.s.hist[e].at = now
                     /\ \A c \in Codes \ {env.newOtp} : ~verify_otp(r.s, e, c).ok

\* C8: no OTP issuance for an email comes less than 30 seconds after the
\* issuance before it.
C8_IssuancesThirtySecondsApart ==
    \A e \in DOMAIN hist : ~hist[e].rapid

\* C9: a POST is turned away exactly when its scope has already let through
\* its ceiling (10 form posts in 3600 seconds, 15 OTP posts in 300 seconds) in
\* the window it falls in; the first POST after the window counts anew.
C9_AdmitsCeilingPerWindow ==
    \A req \in EarlyReturnRequests :
        Rejected(index(St, req, QuietEnv).resp)
            <=> Admitted(wins, req.step, req.ip) >= Limit(req.step)

\* C10 as stated: the stored counter of a scope and address never exceeds the
\* ceiling of the scope.
C10_CounterWithinLimit ==
    \A k \in DOMAIN redis_rate : redis_rate[k].n <= Limit(k[1])

\* C10 as the code has it: with at most MaxInFlight requests of one address in
\* flight at a time, the stored counter never exceeds the ceiling of its scope
\* by more than MaxInFlight - 1.
C10_CounterWithinOvershoot ==
    \A k \in DOMAIN redis_rate :
        redis_rate[k].n <= Limit(k[1]) + MaxInFlight - 1

\* Concurrent requests have carried a counter to the ceiling plus
\* MaxInFlight - 1.
C10_Witness ==
    \E k \in DOMAIN redis_rate :
        redis_rate[k].n = Limit(k[1]) + MaxInFlight - 1

\* C11: every response of the program on Redis and of the program on the
\* in-memory fallback to the same requests at the same times shows the same
\* page and the same kind of result, and the two leave the same payload in the
\* session.
C11_SameOutwardBehaviour ==
    twin.redis = twin.mem /\ twin.session = session

\* C12: while the calls to Redis are not served, a network address that has
\* been let through the ceiling of a scope within the window is rejected.
C12_LimitedWithoutRedis ==
    \A req \in EarlyReturnRequests :
        (~Served(St) /\ Admitted(wins, req.step, req.ip) >= Limit(req.step))
            => Rejected(index(St, req, QuietEnv).resp)

\* C13: during an outage that follows a successful start-up probe, a code
\* issued during the outage is verified by the following verify_otp, and the
\* wrong codes tried against it are counted: the third is turned away as
\* TooManyAttempts.
C13_DegradedModeKeepsOtp ==
    \A e \in DOMAIN hist : \A c \in Codes :
        LET h == hist[e]
            r == verify_otp(St, e, c)
        IN  (h.outage /\ redis_available /\ ~redis_up /\ ~h.used) =>
               /\ (c = h.code /\ h.wrong < MAX_ATTEMPTS) => r.ok
               /\ (c # h.code /\ h.wrong = MAX_ATTEMPTS - 1) => r.msg = MsgTooMany

\* C14: whenever the Redis server is reachable, a store call is served by it,
\* whatever failed before: store_otp leaves the record in Redis.
C14_UnavailabilityNotSticky ==
    redis_up =>
        \A e \in OneEmail : \A c \in Codes :
            e \in DOMAIN store_otp(St, e, c).redis_otp

\* C15: no method of RedisHelper raises; when the backend is unavailable or
\* the call fails, get returns None, set, hset, expire, delete and exists
\* return False, hget returns its default, incr and hincrby return None, and
\* the store is left as it was; once the server is reachable again the
\* available helper serves the call.
C15_NoFailureEscapesTheStore ==
    /\ ~Raised(St)
    /\ (redis_available /\ redis_up) => Served(St)
    /\ ~Served(St) =>
          \A e \in Emails :
             /\ redis_get(St, redis_resend, e) = None
             /\ redis_set(St, redis_resend, e, [val |-> now, exp |-> now])
                   = [ret |-> FALSE, m |-> redis_resend]
             /\ redis_hget(St, redis_otp, e, "attempts", Some(0)) = Some(0)
             /\ redis_hset(St, redis_otp, e, [otp |-> "111111", attempts |-> 0])
                   = [ret |-> FALSE, m |-> redis_otp]
             /\ redis_expire(St, redis_otp, e, now) = [ret |-> FALSE, m |-> redis_otp]
             /\ redis_delete(St, redis_otp, e) = [ret |-> FALSE, m |-> redis_otp]
             /\ ~redis_exists(St, redis_otp, e)
             /\ redis_incr(St, redis_rate, <<"form", e>>)
                   = [ret |-> None, m |-> redis_rate]
             /\ redis_hincrby(St, redis_otp, e, "attempts")
                   = [ret |-> None, m |-> redis_otp]

\* store_otp has called hset and expire during an outage, with a record of
\* the address in Redis: the calls failed and the record is as it was.
C15_Witness ==
    \E e \in DOMAIN hist :
        /\ hist[e].outage /\ redis_available /\ ~redis_up
        /\ e \in DOMAIN redis_otp /\ redis_otp[e].otp # hist[e].code

\* The attempt count the store holds for an address.
StoredAttempts(s, e) ==
    IF s.redis_available
    THEN AttemptsOf(redis_hget(s, s.redis_otp, e, "attempts", Some(0)))
    ELSE s.otp_storage[e].attempts

\* C16: attempt counting is atomic under concurrency on both backends: once
\* the concurrent wrong-code verify_otp calls against a live record have
\* returned, every one of them is reflected: the record is gone, or its
\* count is not below the number of wrong codes submitted since the issue.
C16_NoFailedAttemptLost ==
    \A e \in DOMAIN hist :
        (inflight = EmptyBag /\ ~hist[e].used /\ ~NoRecord(St, e))
            => StoredAttempts(St, e) >= hist[e].wrong

\* C17: a code is consumed exactly once under concurrency: of the verify_otp
\* calls made with the correct code of one issuance, concurrent ones
\* included, at most one returns Verified.
C17_VerifiedAtMostOnce ==
    \A e \in DOMAIN hist : hist[e].verified <= 1

\* C18: once three wrong-code verify_otp calls, concurrent or not, have
\* been made against an issued code and have returned, a later verify_otp
\* with the issued code does not return Verified.
C18_NoVerifiedAfterThreeWrong ==
    \A e \in DOMAIN hist :
        (inflight = EmptyBag /\ hist[e].wrong = MAX_ATTEMPTS /\ ~hist[e].used)
            => ~verify_otp(St, e, hist[e].code).ok

\* C19: a submission is persisted exactly once and only after Verified: a
\* request saves a submission (to MongoDB or to the JSON file) only when
\* verify_otp returned Verified in it, and one pending submission is saved
\* at most once, also when the notification mail fails after the save.
C19_SavedOnceAfterVerified ==
    /\ saves <= 1
    /\ \A req \in OtpRequests(OneEmail) : \A env \in PersistEnvs :
          LET s0 == cleanup_old_data(St)
          IN  handle_otp_verification(s0, req, env).s.saves > saves
                 => /\ req.email # Blank /\ req.otp # Blank
                    /\ verify_otp(s0, req.email, req.otp).ok

\* C20: after Verified and the hand-off to the finalizer, the OTP record of
\* that email and the pending payload in the session are both discarded, on
\* every path through the finalizer.
C20_RecordAndPayloadDiscarded ==
    \A req \in OtpRequests(OneEmail) : \A env \in FinalEnvs :
        LET r == handle_otp_verification(cleanup_old_data(St), req, env)
        IN  r.final # NoFinal
               => r.s.session = NoFormData /\ NoRecord(r.s, req.email)

\* C21: when a verify attempt ends in Expired or Locked, the pending payload
\* is removed from the session and the client is returned to the form step,
\* on either backend: a POST of the OTP step for an unused code that is past
\* its five minutes, or one that verify_otp answers with TooManyAttempts,
\* shows the form page and leaves no payload in the session.
C21_ExpiredOrLockedRestarts ==
    \A req \in OtpRequests(OneEmail) :
        LET s0 == cleanup_old_data(St)
            r == handle_otp_verification(s0, req, QuietEnv)
            expired == /\ req.email \in DOMAIN hist
                       /\ ~hist[req.email].used
                       /\ hist[req.email].wrong = 0
                       /\ Age(req.email) > OtpTtl
            locked == verify_otp(s0, req.email, req.otp).msg = MsgTooMany
        IN  (req.email # Blank /\ req.otp # Blank /\ session = req.email
               /\ (expired \/ locked))
               => r.resp.view = "form" /\ r.s.session = NoFormData

\* C22: a pending submission is held in the session for an email only while
\* an OTP record for that email is live: in no reachable state does the
\* session hold a payload for an email that has no live OTP record.
C22_PendingHasLiveRecord ==
    session # NoFormData => LiveCode(St, session) # None

\* The code, the attempts and the expiry of the record an email has.
OtpRecord(s, e) ==
    IF s.redis_available
    THEN [otp |-> s.redis_otp[e].otp, attempts |-> s.redis_otp[e].attempts,
          expires_at |-> s.redis_otp[e].exp]
    ELSE s.otp_storage[e]

Resent(resp) == resp.flash \in {"code sent", "code not sent"}

\* C23: a resend that is not refused replaces the code and resets the
\* record: after it the record of the email holds the newly generated code
\* with attempts = 0 and an expiry 5 minutes from now, whatever the attempts
\* count was before.
C23_ResendResetsRecord ==
    \A e \in OneEmail : \A env \in IssueEnvs :
        LET r == resend_otp(St, [email |-> e], env)
        IN  Resent(r.resp) =>
               /\ ~NoRecord(r.s, e)
               /\ OtpRecord(r.s, e) =
                     [otp |-> env.newOtp, attempts |-> 0,
                      expires_at |-> now + Ticks(OTP_TTL_SECONDS)]

\* A resend has replaced a live record that had wrong codes counted against
\* it, and the record now holds the new code with no attempts.
C23_Witness ==
    \E e \in DOMAIN hist :
        /\ hist[e].over /\ hist[e].wrong = 0
        /\ ~NoRecord(St, e)
        /\ OtpRecord(St, e).attempts = 0
        /\ OtpRecord(St, e).otp = hist[e].code

\* C24: the resend cooldown resists concurrent requests: of the resend_otp
\* requests for one email that run at the same time with no cooldown entry
\* present, at most one issues a new code: no resend issues a code less than
\* 30 seconds after another resend has issued one.
C24_OneResendPerCooldown ==
    \A e \in DOMAIN hist : ~hist[e].again

\* C25: rate-limit scopes never share counters: a request changes no counter
\* but the one of its own scope and network address, and it is rejected only
\* when that counter is at the ceiling of its scope.
C25_ScopesShareNoCounter ==
    \A req \in FrameRequests :
        LET r == index(St, req, QuietEnv)
            own == <<req.step, req.ip>>
        IN  /\ DOMAIN r.s.redis_rate \ {own} = DOMAIN redis_rate \ {own}
            /\ \A k \in DOMAIN redis_rate \ {own} : r.s.redis_rate[k] = redis_rate[k]
            /\ Rejected(r.resp)
                  => (own \in DOMAIN redis_rate
                      /\ redis_rate[own].n >= Limit(req.step))

\* One address is at the ceiling of the form scope and is still admitted in
\* the OTP scope, while the other address has a counter of its own below the
\* ceiling.
C25_Witness ==
    /\ DOMAIN redis_rate = {"form", "otp"} \X TwoIps
    /\ redis_rate[<<"form", "10.0.0.1">>].n = FORM_LIMIT
    /\ redis_rate[<<"otp", "10.0.0.1">>].n = 2
    /\ redis_rate[<<"form", "10.0.0.2">>].n = 1
    /\ Rejected(index(St, CHOOSE req \in FrameRequests :
                              req.step = "form" /\ req.ip = "10.0.0.1",
                      QuietEnv).resp)
    /\ ~Rejected(index(St, CHOOSE req \in FrameRequests :
                               req.step = "otp" /\ req.ip = "10.0.0.1",
                       QuietEnv).resp)

\* C26: a request that finds the counter of its scope and address at or
\* above the limit is rejected, and the counter and its expiry are left as
\* they were.
C26_RejectedLeavesCounter ==
    \A req \in EarlyReturnRequests :
        LET own == <<req.step, req.ip>>
            current == redis_get(St, redis_rate, own)
            r == index(St, req, QuietEnv)
        IN  (redis_available /\ current # None /\ current[1].n >= Limit(req.step))
               => Rejected(r.resp) /\ r.s.redis_rate = redis_rate

\* A request meets a counter that concurrent requests have carried above the
\* limit, some time into its window, and is rejected.
C26_Witness ==
    \E req \in EarlyReturnRequests :
        LET own == <<req.step, req.ip>>
        IN  /\ own \in DOMAIN redis_rate
            /\ redis_rate[own].n > Limit(req.step)
            /\ redis_rate[own].exp > now
            /\ redis_rate[own].exp < now + Ticks(Window(req.step))
            /\ Rejected(index(St, req, QuietEnv).resp)

\* C27: every rate-limit counter is destroyed by natural expiry: a counter
\* key that exists carries an expiry, and one no later than the window of
\* its scope from now, also when the key has run out between the read and
\* the increment of a request in flight.
C27_CounterCarriesExpiry ==
    \A k \in DOMAIN redis_rate :
        /\ redis_rate[k].exp # NoTTL
        /\ redis_rate[k].exp <= now + Ticks(Window(k[1]))

\* C28: rate-limit counting is atomic per event: once the requests of a
\* window have been served, concurrent ones included, the counter of a scope
\* and address equals the number of requests admitted for it.
C28_CounterEqualsAdmitted ==
    \A k \in DOMAIN wins :
        (redis_available /\ inflight = EmptyBag /\ Admitted(wins, k[1], k[2]) > 0)
            => (k \in DOMAIN redis_rate
                /\ redis_rate[k].n = Admitted(wins, k[1], k[2]))

\* The requests in flight that have read the counter k below the limit and
\* have yet to increment it.
PendingIncr(k) ==
    LET S == {p \in BagToSet(inflight) :
                 p.req.step = k[1] /\ p.req.ip = k[2] /\ p.branch = "incr"}
    IN  BagCardinality([p \in S |-> CopiesIn(p, inflight)])

\* C29: the overshoot under the read-then-increment race is bounded: with at
\* most MaxInFlight requests of one scope and address in flight at a time,
\* the counter, with the increments still in flight added, never exceeds the
\* limit + MaxInFlight - 1; and a request served with no other in flight
\* never carries a counter beyond the limit.
C29_OvershootBounded ==
    /\ \A k \in DOMAIN redis_rate :
          redis_rate[k].n + PendingIncr(k) <= Limit(k[1]) + MaxInFlight - 1
    /\ \A req \in EarlyReturnRequests :
          LET own == <<req.step, req.ip>>
              after == index(St, req, QuietEnv).s.redis_rate
          IN  (inflight = EmptyBag /\ own \in DOMAIN after
                 /\ (own \in DOMAIN redis_rate => redis_rate[own].n <= Limit(req.step)))
                 => after[own].n <= Limit(req.step)

\* The requests in flight have all incremented and the counter stands at the
\* limit + MaxInFlight - 1.
C29_Witness ==
    /\ inflight = EmptyBag
    /\ \E k \in DOMAIN redis_rate :
          /\ redis_rate[k].n > Limit(k[1])
          /\ redis_rate[k].n = Limit(k[1]) + MaxInFlight - 1

\* C30: the rate-limit window is fixed: no step changes the expiry of a
\* counter that exists, and a counter that comes into being starts at 1 with
\* an expiry one window from now.
C30_WindowFixed ==
    [][/\ \A k \in DOMAIN redis_rate \cap DOMAIN redis_rate' :
             redis_rate'[k].exp = redis_rate[k].exp
       /\ \A k \in DOMAIN redis_rate' \ DOMAIN redis_rate :
             redis_rate'[k] = [n |-> 1, exp |-> now + Ticks(Window(k[1]))]]_vars

\* A spelling of an email that differs from it in letter case only.
OtherSpellings == {"A@x.com"}

\* What the stores hold for an email: its OTP record with the attempts count
\* and its resend cooldown, on either backend.
HeldFor(s, e) ==
    [m \in {"redis_otp", "otp_storage", "redis_resend", "otp_resend_cooldown"} |->
        IF e \in DOMAIN s[m] THEN Some(s[m][e]) ELSE None]

\* C31: per-email isolation: store_otp, verify_otp and resend_otp for an
\* email E1 leave the OTP record, the attempts count and the resend cooldown
\* of every other email E2 as they were, also when E1 differs from E2 in
\* letter case only.
C31_PerEmailIsolation ==
    \A e2 \in Emails : \A e1 \in (Emails \cup OtherSpellings) \ {e2} :
        \A c \in Codes :
            LET env == [QuietEnv EXCEPT !.newOtp = c]
                held == HeldFor(St, e2)
            IN  /\ HeldFor(store_otp(St, e1, c), e2) = held
                /\ HeldFor(verify_otp(St, e1, c).s, e2) = held
                /\ HeldFor(resend_otp(St, [email |-> e1], env).s, e2) = held
                /\ HeldFor(ResendIssue(St, [email |-> e1], env).s, e2) = held

\* Two emails have a record each; a resend has replaced the record of one
\* while the other keeps its code and the one wrong attempt counted on it.
C31_Witness ==
    \E e1 \in DOMAIN hist : \E e2 \in DOMAIN hist \ {e1} :
        /\ hist[e1].over /\ ~NoRecord(St, e1)
        /\ hist[e2].wrong = 1 /\ ~hist[e2].used /\ ~NoRecord(St, e2)
        /\ OtpRecord(St, e2).attempts = 1
        /\ OtpRecord(St, e2).otp = hist[e2].code

\* The record an email has that has not run out, and the cooldown entry it
\* has that is less than 30 seconds old.
LiveRecord(s, e) ==
    IF LiveCode(s, e) = None THEN None ELSE Some(OtpRecord(s, e))

ActiveCooldown(s, e) ==
    LET last == IF s.redis_available THEN s.redis_resend ELSE s.otp_resend_cooldown
        last_time == IF s.redis_available THEN last[e].val ELSE last[e]
    IN  IF e \in DOMAIN last /\ InCooldown(now - last_time)
        THEN Some(last_time) ELSE None

RejectedForm(req, resp) ==
    Rejected(resp) \/ req.honeypot \/ ~req.fieldsOk \/ req.email = Blank

C33_RedisRecordComplete ==
    \A e \in DOMAIN redis_otp :
        /\ "otp" \in DOMAIN redis_otp[e]
        /\ redis_otp[e].exp # NoTTL
        /\ redis_otp[e].exp <= now + Ticks(OTP_TTL_SECONDS)

\* C34: a failed verify_otp that read the record of an email before a
\* store_otp replaced it does not touch the new record: the step in which
\* such a call returns neither deletes the record that now holds another
\* code nor changes its attempts.
C34_StaleVerifyLeavesNewRecord ==
    [][\A p \in BagToSet(inflight) :
          LET e == p.req.email
          IN  (/\ redis_available
               /\ inflight' = inflight (-) SetToBag({p})
               /\ p.pc = "write"
               /\ p.stored_otp # None
               /\ p.stored_otp # Some(p.req.otp)
               /\ LiveCode(St, e) # None
               /\ LiveCode(St, e) # p.stored_otp)
              => (e \in DOMAIN redis_otp' /\ redis_otp'[e] = redis_otp[e])]_vars

\* C35: for every sequence of issue, verify and clock-advance operations,
\* verify_otp returns True on the Redis path exactly when it does on the
\* in-memory path, namely when a record was issued and not yet consumed, is
\* not expired, fewer than 3 wrong codes were submitted since its issuance
\* and the submitted code equals the issued one. (The very instant of expiry
\* is left out: the two paths take their clocks at different moments.)
C35_SameAcceptance ==
    \A e \in OneEmail : \A c \in Codes :
        LET onRedis == verify_otp(RedisWorld, e, c).ok
            inMemory == verify_otp(MemWorld, e, c).ok
            due == /\ e \in DOMAIN hist
                   /\ ~hist[e].used
                   /\ Age(e) < OtpTtl
                   /\ hist[e].wrong < MAX_ATTEMPTS
                   /\ c = hist[e].code
        IN  (Served(St) /\ (e \in DOMAIN hist => Age(e) # OtpTtl))
               => (onRedis = inMemory /\ onRedis = due)

\* The third wrong code was answered with TooManyAttempts on the Redis path
\* and with InvalidCode on the in-memory path, and both paths now turn the
\* issued code away.
C35_Witness ==
    /\ twin.redis = Some([view |-> "otp", result |-> "TooManyAttempts"])
    /\ twin.mem = Some([view |-> "otp", result |-> "InvalidCode"])
    /\ \E e \in DOMAIN hist :
          /\ hist[e].wrong = MAX_ATTEMPTS /\ Age(e) < OtpTtl
          /\ ~verify_otp(RedisWorld, e, hist[e].code).ok
          /\ ~verify_otp(MemWorld, e, hist[e].code).ok

\* C36: when Redis passed the start-up probe and its calls fail, verify_otp
\* returns False with the not-found message for every email and code and
\* leaves the stores alone, and handle_otp_verification finalizes nothing:
\* no payload is handed on, nothing is saved.
C36_FailsClosed ==
    (redis_available /\ ~redis_up) =>
        /\ \A e \in Emails \cup OtherSpellings : \A c \in Codes :
              LET v == verify_otp(St, e, c)
              IN  /\ ~v.ok /\ v.msg = MsgRedisNotFound
                  /\ v.s.redis_otp = redis_otp /\ v.s.otp_storage = otp_storage
        /\ \A req \in OtpRequests(OneEmail) : \A env \in FinalEnvs :
              LET r == handle_otp_verification(cleanup_old_data(St), req, env)
              IN  /\ r.final = NoFinal /\ r.s.saves = saves
                  /\ r.s.mongo_ids = mongo_ids /\ r.s.tracking_ids = tracking_ids

\* A wrong code was submitted during the outage against a record issued
\* before it: the record still has no failed attempt, and the answer cleared
\* the session.
C36_Witness ==
    /\ redis_available /\ ~redis_up /\ session = NoFormData
    /\ \E e \in DOMAIN hist :
          /\ ~hist[e].outage /\ hist[e].wrong = 1 /\ ~hist[e].used
          /\ e \in DOMAIN redis_otp
          /\ redis_otp[e].otp = hist[e].code /\ redis_otp[e].attempts = 0

\* The OTP records and the resend cooldowns, on both backends.
OtpAndCooldown(s) ==
    <<s.redis_otp, s.otp_storage, s.redis_resend, s.otp_resend_cooldown>>

\* C37: resend_otp issues a new code and writes the cooldown only when the
\* session holds a pending payload whose email equals the requested email:
\* with an empty email, no payload or the payload of another email the
\* request is redirected, no code is issued, and the OTP store and the
\* cooldowns stay as they were.
C37_ResendNeedsOwnPayload ==
    \A e \in Emails \cup OtherSpellings \cup {Blank} : \A c \in Codes :
        LET r == resend_otp(St, [email |-> e], [QuietEnv EXCEPT !.newOtp = c])
        IN  IF e # Blank /\ session # NoFormData /\ session = e
            THEN Resent(r.resp) => LiveCode(r.s, e) = Some(c)
            ELSE /\ r.resp.view = "redirect" /\ ~Resent(r.resp)
                 /\ OtpAndCooldown(r.s) = OtpAndCooldown(St)
                 /\ r.s.hist = hist

\* The session holds the payload of one email, for which a resend has been
\* issued; another email has a record and no cooldown, and a resend for it
\* is turned away with "form data expired".
C37_Witness ==
    \E e1 \in DOMAIN hist : \E e2 \in DOMAIN hist \ {e1} :
        /\ session = e1 /\ hist[e1].over
        /\ LiveCode(St, e2) # None
        /\ e2 \notin DOMAIN redis_resend /\ e2 \notin DOMAIN otp_resend_cooldown
        /\ resend_otp(St, [email |-> e2], QuietEnv).resp
              = Resp("redirect", "form data expired")

\* C38: when sending the OTP mail fails during a form submission, the client
\* is returned to the form step with an error, and the OTP record and the
\* session payload are kept: the issued code is the live record, and until
\* it expires a verify_otp with that code is accepted and the submission is
\* finalized with the payload of the session.
C38_MailFailureKeepsPending ==
    /\ \A req \in FormRequests(OneEmail) : \A env \in MailFailEnvs :
          LET r == handle_form_submission(cleanup_old_data(St), req, env)
          IN  Issues(req) =>
                 /\ r.resp = Resp("form", "code not sent")
                 /\ r.s.session = req.email
                 /\ LiveCode(r.s, req.email) = Some(env.newOtp)
                 /\ verify_otp(r.s, req.email, env.newOtp).ok
    /\ \A e \in DOMAIN hist :
          (~hist[e].used /\ hist[e].wrong = 0 /\ Age(e) < OtpTtl) =>
             /\ session = e
             /\ verify_otp(cleanup_old_data(St), e, hist[e].code).ok
             /\ \A env \in FinalEnvs :
                   handle_otp_verification(cleanup_old_data(St),
                       [email |-> e, otp |-> hist[e].code], env).final # NoFinal

\* Some time after a form submission whose mail was not sent, the code it
\* issued was submitted and accepted.
C38_Witness ==
    \E e \in DOMAIN hist :
        /\ hist[e].used /\ hist[e].verified = 1 /\ hist[e].wrong = 0
        /\ now > hist[e].at /\ NoRecord(St, e)

\* C39: every finalized submission receives an ID that differs from the IDs
\* of all earlier finalized submissions: the ID that a verification hands to
\* the finalizer is not among the IDs saved in MongoDB or in the JSON file.
C39_FreshSubmissionId ==
    \A req \in OtpRequests(OneEmail) : \A env \in PersistEnvs :
        LET r == handle_otp_verification(cleanup_old_data(St), req, env)
        IN  r.final # NoFinal =>
               r.final[1].id \notin mongo_ids \cup tracking_ids
====
